---- MODULE Spec2Model ----
(***************************************************************************)
(* A model of the NZXT Grid V3 / Smart Device V1 hwmon driver              *)
(* (src/nzxt_grid.c): the status-report codec, the per-channel cache under *)
(* its rwlock, the output-report send path, and the probe / remove         *)
(* sequences.  Byte buffers are TLA+ sequences, so the byte at C offset k  *)
(* is element k + 1.                                                       *)
(***************************************************************************)
EXTENDS Integers, Sequences, FiniteSets, TLC

(***************************************************************************)
(* Program constants                                                       *)
(***************************************************************************)
NZXT_GRID_MAX_CHANNELS == 6

NZXT_GRID_OUTPUT_REPORT_SIZE == 65

nzxt_grid_report_id_command == 2

nzxt_grid_report_id_status == 4

\* 0x5c, 0x5d, 0x4d
nzxt_grid_command_detect_fans == 92

nzxt_grid_command_start_reporting == 93

nzxt_grid_command_set_fan_speed == 77

nzxt_grid_fan_none == 0

nzxt_grid_fan_dc == 1

nzxt_grid_fan_pwm == 2

\* sizeof(struct nzxt_grid_status_report): 1+2+2+2+1+1+1+1+1+2+1+1+5, packed
STATUS_REPORT_SIZE == 21

\* Linux errno values used by the driver (returned negated)
ENOMEM == 12

EINVAL == 22

(***************************************************************************)
(* Bounds of the model                                                     *)
(***************************************************************************)
\* reader threads that may sit in nzxt_grid_hwmon_read at the same time
NReaders == 2

\* input reports the device delivers in one run
MaxEvents == 2

\* hwmon write calls in one run
MaxWrites == 1

\* how far below 0 and above 255 the written pwm values range
PwmMargin == 3

(***************************************************************************)
(* C arithmetic                                                            *)
(***************************************************************************)
\* C integer division truncates toward zero
CDiv(a, b) ==
    IF a >= 0 THEN a \div b ELSE 0 - ((0 - a) \div b)

\* conversion to uint8_t
U8(x) == x % 256

(***************************************************************************)
(* Wire codec: struct nzxt_grid_status_report                              *)
(***************************************************************************)
\* field accessors of the packed struct laid over the buffer
report_rpm_hi(data) == data[4]

report_rpm_lo(data) == data[5]

report_in_volt(data) == data[8]

report_in_centivolt(data) == data[9]

report_curr_amp(data) == data[10]

report_curr_centiamp(data) == data[11]

report_channel_index_and_fan_type(data) == data[16]

nzxt_grid_get_channel_index(data) ==
    report_channel_index_and_fan_type(data) \div 16

nzxt_grid_get_fan_type(data) ==
    report_channel_index_and_fan_type(data) % 4

\* a slip: the rpm field read as little-endian
le16_to_cpup(data) == report_rpm_lo(data) * 256 + report_rpm_hi(data)

\* be16_to_cpup(&status_report->rpm)
be16_to_cpup(data) == report_rpm_hi(data) * 256 + report_rpm_lo(data)

\* a slip: the raw fan-type bits are stored as they come
raw_event_type_unchecked(fan_type) == fan_type

\* the switch on fan_type in nzxt_grid_raw_event
raw_event_type(fan_type) ==
    IF fan_type = nzxt_grid_fan_dc \/ fan_type = nzxt_grid_fan_pwm
    THEN fan_type
    ELSE nzxt_grid_fan_none

raw_event_speed_rpm(data) == be16_to_cpup(data)

raw_event_in_millivolt(data) ==
    report_in_volt(data) * 1000 + report_in_centivolt(data) * 10

raw_event_curr_milliamp(data) ==
    report_curr_amp(data) * 1000 + report_curr_centiamp(data) * 10

\* a slip: a buffer longer than the report is let through
raw_event_size_at_least(data) == Len(data) >= STATUS_REPORT_SIZE

\* the two early returns of nzxt_grid_raw_event
raw_event_size_ok(data) == Len(data) = STATUS_REPORT_SIZE

raw_event_channel_ok(data) ==
    nzxt_grid_get_channel_index(data) < NZXT_GRID_MAX_CHANNELS

raw_event_accepts(data) ==
    raw_event_size_ok(data) /\ raw_event_channel_ok(data)

(***************************************************************************)
(* Duty mapping and the output reports                                     *)
(***************************************************************************)
\* a slip: the scale divides by 256
nzxt_grid_pwm_to_percent_256(hwmon_value) ==
    IF hwmon_value < 0 THEN 0
    ELSE IF hwmon_value >= 255 THEN 100
    ELSE U8(CDiv(hwmon_value * 100, 256))

nzxt_grid_pwm_to_percent(hwmon_value) ==
    IF hwmon_value < 0 THEN 0
    ELSE IF hwmon_value >= 255 THEN 100
    ELSE U8(CDiv(hwmon_value * 100, 255))

\* struct nzxt_grid_command_set_fan_speed_output_report as filled in by
\* nzxt_grid_hwmon_write_pwm_input
set_fan_speed_report(chan, val) ==
    << nzxt_grid_report_id_command,
       nzxt_grid_command_set_fan_speed,
       U8(chan),
       0,
       nzxt_grid_pwm_to_percent(val) >>

detect_fans_report ==
    << nzxt_grid_report_id_command, nzxt_grid_command_detect_fans >>

\* a copy-paste slip: start reporting sends the detect-fans code again
start_reporting_report_copied ==
    << nzxt_grid_report_id_command, nzxt_grid_command_detect_fans >>

start_reporting_report ==
    << nzxt_grid_report_id_command, nzxt_grid_command_start_reporting >>

\* a slip: kmalloc in place of kzalloc leaves the buffer's old content
kmalloc_buffer == [i \in 1..NZXT_GRID_OUTPUT_REPORT_SIZE |-> 165]

\* kzalloc(NZXT_GRID_OUTPUT_REPORT_SIZE, GFP_KERNEL), when it succeeds
kzalloc_buffer == [i \in 1..NZXT_GRID_OUTPUT_REPORT_SIZE |-> 0]

\* memcpy(buffer, data, size) with size = sizeof(report) = Len(data)
memcpy(buffer, data) ==
    [i \in 1..Len(buffer) |-> IF i <= Len(data) THEN data[i] ELSE buffer[i]]

\* a slip: the byte count of a successful submit is handed to the caller
send_result_raw(ret) == ret

\* return (ret < 0) ? ret : 0;
send_result(ret) == IF ret < 0 THEN ret ELSE 0

(***************************************************************************)
(* hwmon read dispatch.  A sensor kind is enum hwmon_sensor_types, an      *)
(* attribute is the attribute enum of that kind (hwmon_fan_input is        *)
(* "input" of kind "fan", hwmon_pwm_mode is "mode" of kind "pwm").  Each   *)
(* helper gets the caller's *val and gives back ret and the new *val.      *)
(***************************************************************************)
nzxt_grid_hwmon_read_fan(channel_status, attr, val) ==
    IF attr = "input"
    THEN [ret |-> 0, val |-> channel_status.speed_rpm]
    ELSE [ret |-> 0 - EINVAL, val |-> val]

\* a slip: every attached fan is reported as pwm-driven
nzxt_grid_hwmon_read_pwm_any_fan(channel_status, attr, val) ==
    IF attr = "mode"
    THEN [ret |-> 0,
          val |-> IF channel_status.type # nzxt_grid_fan_none THEN 1 ELSE 0]
    ELSE [ret |-> 0 - EINVAL, val |-> val]

nzxt_grid_hwmon_read_pwm(channel_status, attr, val) ==
    IF attr = "mode"
    THEN [ret |-> 0,
          val |-> IF channel_status.type = nzxt_grid_fan_pwm THEN 1 ELSE 0]
    ELSE [ret |-> 0 - EINVAL, val |-> val]

nzxt_grid_hwmon_read_in(channel_status, attr, val) ==
    IF attr = "input"
    THEN [ret |-> 0, val |-> channel_status.in_millivolt]
    ELSE [ret |-> 0 - EINVAL, val |-> val]

nzxt_grid_hwmon_read_curr(channel_status, attr, val) ==
    IF attr = "input"
    THEN [ret |-> 0, val |-> channel_status.curr_milliamp]
    ELSE [ret |-> 0 - EINVAL, val |-> val]

\* the switch (type) of nzxt_grid_hwmon_read
hwmon_read_switch(channel_status, type, attr, val) ==
    CASE type = "fan"  -> nzxt_grid_hwmon_read_fan(channel_status, attr, val)
      [] type = "pwm"  -> nzxt_grid_hwmon_read_pwm(channel_status, attr, val)
      [] type = "in"   -> nzxt_grid_hwmon_read_in(channel_status, attr, val)
      [] type = "curr" -> nzxt_grid_hwmon_read_curr(channel_status, attr, val)
      [] OTHER         -> [ret |-> 0 - EINVAL, val |-> val]

\* a slip: nzxt_grid_hwmon_write_pwm does not look at the attribute
hwmon_write_any_pwm_attr(type, attr) ==
    type = "pwm"

\* the two switches of nzxt_grid_hwmon_write / nzxt_grid_hwmon_write_pwm:
\* TRUE when the call reaches nzxt_grid_hwmon_write_pwm_input
hwmon_write_reaches_pwm_input(type, attr) ==
    type = "pwm" /\ attr = "input"

(***************************************************************************)
(* Device variants: nzxt_grid_device_configs[id->driver_data]              *)
(***************************************************************************)
Variants == {"grid_v3", "smart_device_v1"}

\* a slip: the three-channel variant is given the six-channel tables
ExposedChannels_six(v) == 0..5

\* the channels each hwmon_channel_info table lists
ExposedChannels(v) ==
    IF v = "grid_v3" THEN 0..5 ELSE 0..2

Channels == 0..(NZXT_GRID_MAX_CHANNELS - 1)

(***************************************************************************)
(* State                                                                   *)
(***************************************************************************)
VARIABLES
    variant,    \* id->driver_data
    channel,    \* grid->channel[NZXT_GRID_MAX_CHANNELS]
    lock,       \* grid->lock: the write holder flag and the set of read holders
    hid,        \* the HID transport: started, opened, io_started
    hwmon,      \* grid->hwmon: "none", "registered" or "unregistered"
    calls,      \* history of the external calls made, in order
    probe,      \* position and result of nzxt_grid_probe / nzxt_grid_remove
    ev,         \* the invocation of nzxt_grid_raw_event, if one is running
    nev,        \* input reports delivered so far
    latest,     \* per channel: the last accepted status report that arrived
    cpu,        \* the CPU that took the last input interrupt
    rd,         \* per reader thread: its invocation of nzxt_grid_hwmon_read
    wr,         \* per writer thread: its invocation of nzxt_grid_hwmon_write
    nwr,        \* hwmon write calls made so far
    snd         \* per sending thread: its frame of nzxt_grid_send_output_report

vars == << variant, channel, lock, hid, hwmon, calls, probe, ev, nev, latest,
          cpu, rd, wr, nwr, snd >>

Readers == 1..NReaders

\* one thread writes pwm values
Writers == {1}

\* thread 0 runs probe and remove
ProbeThread == {0}

Senders == ProbeThread \cup Writers

\* devm_kzalloc zeroes the device: every entry is none / 0 / 0 / 0
ZeroStatus ==
    [type |-> nzxt_grid_fan_none, speed_rpm |-> 0, in_millivolt |-> 0,
     curr_milliamp |-> 0]

ZeroChannels == [c \in Channels |-> ZeroStatus]

EvIdle ==
    [pc |-> "idle", data |-> << >>, ret |-> 0, pre |-> ZeroChannels,
     locked |-> FALSE]

RdIdle ==
    [pc |-> "idle", type |-> "", attr |-> "", channel |-> 0, ret |-> 0,
     val |-> 0]

WrIdle ==
    [pc |-> "idle", type |-> "", attr |-> "", channel |-> 0, val |-> 0,
     ret |-> 0, mark |-> 0]

SndIdle ==
    [pc |-> "idle", data |-> << >>, buffer |-> << >>, hw_ret |-> 0,
     ret |-> 0, allocs |-> 0, submits |-> 0, frees |-> 0,
     submitted |-> << >>]

Call(op, by, res, buf) == [op |-> op, by |-> by, res |-> res, buf |-> buf]

(***************************************************************************)
(* grid->lock.  The lock is taken with the irqsave variants, so a holder   *)
(* is never interrupted on its own CPU; a taker waits (its action is not   *)
(* enabled) until the lock is free for it.                                 *)
(***************************************************************************)
read_lock_free == ~lock.writer

write_lock_free == ~lock.writer /\ lock.readers = {}

(***************************************************************************)
(* nzxt_grid_raw_event: the transport's receive path.  The HID core        *)
(* delivers input reports one at a time, and only once the input stream is *)
(* open and the driver has called hid_device_io_start.                     *)
(***************************************************************************)
InputFlows == hid.opened /\ hid.io_started

\* return 0, on each of the three paths
raw_event_return == 0

\* nzxt_grid_reports: the .report_type of the two entries of the table,
\* { HID_REPORT_ID(nzxt_grid_report_id_status) } and the closing { }
nzxt_grid_reports == {nzxt_grid_report_id_status, 0}

\* .report_table: the HID core calls raw_event for a report when an entry of
\* the table equals the report's type (input, output or feature), not its id
hid_match_report(type) == type \in nzxt_grid_reports

\* an input report, of type HID_INPUT_REPORT (0), is handed to raw_event
\* whatever its first byte is
hid_input_report_matches(data) == Len(data) > 0 /\ hid_match_report(0)

\* no status report has been accepted for a channel yet
NoLatest == [c \in Channels |-> [data |-> << >>, phase |-> "none"]]

\* CPU t runs reader thread t; CPU 0 runs none of the readers
Cpus == 0..NReaders

\* a slip: read_lock() in place of read_lock_irqsave() leaves interrupts on
irqs_enabled_under_lock(k) == FALSE

\* read_lock_irqsave ... read_unlock_irqrestore: interrupts are off on the
\* CPU of a reader for as long as it holds the lock
irqs_disabled(k) == k \in lock.readers

\* the input interrupt is being handled on CPU k, which runs nothing else
\* until the handler returns
irq_running_on(k) == ev.pc # "idle" /\ cpu = k

\* entry on one of the given CPUs, the size check and the channel-index check
RawEventEnterOn(bufs, cpus) ==
    /\ ev.pc = "idle"
    /\ InputFlows
    /\ nev < MaxEvents
    /\ \E data \in bufs, k \in cpus :
         /\ hid_input_report_matches(data)
         /\ ~irqs_disabled(k)
         /\ cpu' = k
         /\ ev' = [pc |-> IF raw_event_accepts(data) THEN "write_lock"
                          ELSE "return",
                   data |-> data,
                   ret |-> IF raw_event_accepts(data) THEN 0
                           ELSE raw_event_return,
                   pre |-> channel, locked |-> FALSE]
         /\ latest' =
              IF raw_event_accepts(data)
              THEN [latest EXCEPT
                      ![nzxt_grid_get_channel_index(data)] =
                        [data |-> data, phase |-> probe.pc]]
              ELSE latest
    /\ nev' = nev + 1
    /\ UNCHANGED << variant, channel, lock, hid, hwmon, calls, probe, rd, wr,
                    nwr, snd >>

\* entry on a CPU that runs no reader
RawEventEnter(bufs) == RawEventEnterOn(bufs, {0})

\* a slip: the writer does not wait for the readers to leave
RawEventLock_no_wait ==
    /\ ev.pc = "write_lock"
    /\ ~lock.writer
    /\ lock' = [lock EXCEPT !.writer = TRUE]
    /\ ev' = [ev EXCEPT !.pc = "type", !.locked = TRUE]
    /\ UNCHANGED << variant, channel, hid, hwmon, calls, probe, nev, rd, wr,
                    nwr, snd, latest, cpu >>

\* write_lock_irqsave(&grid->lock, irq_flags)
RawEventLock ==
    /\ ev.pc = "write_lock"
    /\ write_lock_free
    /\ lock' = [lock EXCEPT !.writer = TRUE]
    /\ ev' = [ev EXCEPT !.pc = "type", !.locked = TRUE]
    /\ UNCHANGED << variant, channel, hid, hwmon, calls, probe, nev, rd, wr,
                    nwr, snd, latest, cpu >>

\* channel_status->type = ...
RawEventType ==
    /\ ev.pc = "type"
    /\ channel' = [channel EXCEPT
                     ![nzxt_grid_get_channel_index(ev.data)].type =
                        raw_event_type(nzxt_grid_get_fan_type(ev.data))]
    /\ ev' = [ev EXCEPT !.pc = "speed_rpm"]
    /\ UNCHANGED << variant, lock, hid, hwmon, calls, probe, nev, rd, wr, nwr,
                    snd, latest, cpu >>

\* channel_status->speed_rpm = ...
RawEventSpeed ==
    /\ ev.pc = "speed_rpm"
    /\ channel' = [channel EXCEPT
                     ![nzxt_grid_get_channel_index(ev.data)].speed_rpm =
                        raw_event_speed_rpm(ev.data)]
    /\ ev' = [ev EXCEPT !.pc = "in_millivolt"]
    /\ UNCHANGED << variant, lock, hid, hwmon, calls, probe, nev, rd, wr, nwr,
                    snd, latest, cpu >>

\* channel_status->in_millivolt = ...
RawEventIn ==
    /\ ev.pc = "in_millivolt"
    /\ channel' = [channel EXCEPT
                     ![nzxt_grid_get_channel_index(ev.data)].in_millivolt =
                        raw_event_in_millivolt(ev.data)]
    /\ ev' = [ev EXCEPT !.pc = "curr_milliamp"]
    /\ UNCHANGED << variant, lock, hid, hwmon, calls, probe, nev, rd, wr, nwr,
                    snd, latest, cpu >>

\* channel_status->curr_milliamp = ...
RawEventCurr ==
    /\ ev.pc = "curr_milliamp"
    /\ channel' = [channel EXCEPT
                     ![nzxt_grid_get_channel_index(ev.data)].curr_milliamp =
                        raw_event_curr_milliamp(ev.data)]
    /\ ev' = [ev EXCEPT !.pc = "write_unlock"]
    /\ UNCHANGED << variant, lock, hid, hwmon, calls, probe, nev, rd, wr, nwr,
                    snd, latest, cpu >>

\* write_unlock_irqrestore(&grid->lock, irq_flags)
RawEventUnlock ==
    /\ ev.pc = "write_unlock"
    /\ lock' = [lock EXCEPT !.writer = FALSE]
    /\ ev' = [ev EXCEPT !.pc = "return", !.ret = raw_event_return]
    /\ UNCHANGED << variant, channel, hid, hwmon, calls, probe, nev, rd, wr,
                    nwr, snd, latest, cpu >>

RawEventReturn ==
    /\ ev.pc = "return"
    /\ ev' = EvIdle
    /\ UNCHANGED << variant, channel, lock, hid, hwmon, calls, probe, nev, rd,
                    wr, nwr, snd, latest, cpu >>

(***************************************************************************)
(* nzxt_grid_hwmon_read, called by the hwmon core on any thread while the  *)
(* sensor surface is registered, for a channel the chip info lists.        *)
(***************************************************************************)
HwmonReadCall(t, reqs) ==
    /\ rd[t].pc = "idle"
    /\ hwmon = "registered"
    /\ \E rq \in reqs :
         /\ rq.channel \in ExposedChannels(variant)
         /\ rd' = [rd EXCEPT ![t] =
                     [pc |-> "read_lock", type |-> rq.type, attr |-> rq.attr,
                      channel |-> rq.channel, ret |-> 0, val |-> 0]]
    /\ UNCHANGED << variant, channel, lock, hid, hwmon, calls, probe, ev, nev,
                    wr, nwr, snd, latest, cpu >>

\* a slip: the reader does not wait for the writer to leave
HwmonReadLock_no_wait(t) ==
    /\ rd[t].pc = "read_lock"
    /\ lock' = [lock EXCEPT !.readers = @ \cup {t}]
    /\ rd' = [rd EXCEPT ![t].pc = "switch"]
    /\ UNCHANGED << variant, channel, hid, hwmon, calls, probe, ev, nev, wr,
                    nwr, snd, latest, cpu >>

\* read_lock_irqsave(&grid->lock, irq_flags)
HwmonReadLock(t) ==
    /\ rd[t].pc = "read_lock"
    /\ read_lock_free
    /\ lock' = [lock EXCEPT !.readers = @ \cup {t}]
    /\ rd' = [rd EXCEPT ![t].pc = "switch"]
    /\ UNCHANGED << variant, channel, hid, hwmon, calls, probe, ev, nev, wr,
                    nwr, snd, latest, cpu >>

\* switch (type) { ... }
HwmonReadSwitch(t) ==
    /\ rd[t].pc = "switch"
    /\ LET r == hwmon_read_switch(channel[rd[t].channel], rd[t].type,
                                  rd[t].attr, rd[t].val)
       IN rd' = [rd EXCEPT ![t].pc = "read_unlock", ![t].ret = r.ret,
                           ![t].val = r.val]
    /\ UNCHANGED << variant, channel, lock, hid, hwmon, calls, probe, ev, nev,
                    wr, nwr, snd, latest, cpu >>

\* a slip: the -EINVAL path returns without read_unlock_irqrestore
HwmonReadUnlock_skipped_on_error(t) ==
    /\ rd[t].pc = "read_unlock"
    /\ lock' = IF rd[t].ret # 0 THEN lock
               ELSE [lock EXCEPT !.readers = @ \ {t}]
    /\ rd' = [rd EXCEPT ![t].pc = "return"]
    /\ UNCHANGED << variant, channel, hid, hwmon, calls, probe, ev, nev, wr,
                    nwr, snd, latest, cpu >>

\* read_unlock_irqrestore(&grid->lock, irq_flags)
HwmonReadUnlock(t) ==
    /\ rd[t].pc = "read_unlock"
    /\ lock' = [lock EXCEPT !.readers = @ \ {t}]
    /\ rd' = [rd EXCEPT ![t].pc = "return"]
    /\ UNCHANGED << variant, channel, hid, hwmon, calls, probe, ev, nev, wr,
                    nwr, snd, latest, cpu >>

\* return ret
HwmonReadReturn(t) ==
    /\ rd[t].pc = "return"
    /\ rd' = [rd EXCEPT ![t] = RdIdle]
    /\ UNCHANGED << variant, channel, lock, hid, hwmon, calls, probe, ev, nev,
                    wr, nwr, snd, latest, cpu >>

(***************************************************************************)
(* nzxt_grid_send_output_report, run by the probe thread (detect fans,     *)
(* start reporting) and by a writer thread (set fan speed).  The frame     *)
(* counts its own allocations, submits and frees.                          *)
(***************************************************************************)
\* what an external call that fails may return: -EIO or -ENOMEM
ExternalErrors == {0 - 5, 0 - ENOMEM}

\* hid_hw_output_report gives the number of bytes sent, or an error
OutputReportResults == {NZXT_GRID_OUTPUT_REPORT_SIZE} \cup ExternalErrors

SendStart(data) ==
    [pc |-> "kzalloc", data |-> data, buffer |-> << >>, hw_ret |-> 0,
     ret |-> 0, allocs |-> 0, submits |-> 0, frees |-> 0,
     submitted |-> << >>]

\* buffer = kzalloc(...); if (!buffer) return -ENOMEM; memcpy(...)
SendAlloc(t) ==
    /\ snd[t].pc = "kzalloc"
    /\ \/ /\ snd' = [snd EXCEPT ![t].pc = "done", ![t].ret = 0 - ENOMEM]
          /\ calls' = Append(calls, Call("kzalloc", t, 0 - ENOMEM, << >>))
       \/ /\ snd' = [snd EXCEPT ![t].pc = "hid_hw_output_report",
                                ![t].buffer = memcpy(kzalloc_buffer,
                                                     snd[t].data),
                                ![t].allocs = @ + 1]
          /\ calls' = Append(calls, Call("kzalloc", t, 0, << >>))
    /\ UNCHANGED << variant, channel, lock, hid, hwmon, probe, ev, nev, rd, wr,
                    nwr, latest, cpu >>

\* ret = hid_hw_output_report(grid->hid, buffer, NZXT_GRID_OUTPUT_REPORT_SIZE)
SendSubmit(t) ==
    /\ snd[t].pc = "hid_hw_output_report"
    /\ \E r \in OutputReportResults :
         /\ snd' = [snd EXCEPT ![t].pc = "kfree", ![t].hw_ret = r,
                               ![t].submits = @ + 1,
                               ![t].submitted = snd[t].buffer]
         /\ calls' = Append(calls, Call("hid_hw_output_report", t, r,
                                        snd[t].buffer))
    /\ UNCHANGED << variant, channel, lock, hid, hwmon, probe, ev, nev, rd, wr,
                    nwr, latest, cpu >>

\* kfree(buffer); return (ret < 0) ? ret : 0;
SendFree(t) ==
    /\ snd[t].pc = "kfree"
    /\ snd' = [snd EXCEPT ![t].pc = "done", ![t].buffer = << >>,
                          ![t].frees = @ + 1,
                          ![t].ret = send_result(snd[t].hw_ret)]
    /\ calls' = Append(calls, Call("kfree", t, 0, << >>))
    /\ UNCHANGED << variant, channel, lock, hid, hwmon, probe, ev, nev, rd, wr,
                    nwr, latest, cpu >>

(***************************************************************************)
(* nzxt_grid_hwmon_write and its helpers                                   *)
(***************************************************************************)
HwmonWriteCall(t, reqs) ==
    /\ wr[t].pc = "idle"
    /\ hwmon = "registered"
    /\ nwr < MaxWrites
    /\ \E rq \in reqs :
         /\ rq.channel \in ExposedChannels(variant)
         /\ IF hwmon_write_reaches_pwm_input(rq.type, rq.attr)
            THEN /\ wr' = [wr EXCEPT ![t] =
                             [pc |-> "send", type |-> rq.type,
                              attr |-> rq.attr, channel |-> rq.channel,
                              val |-> rq.val, ret |-> 0,
                              mark |-> Len(calls)]]
                 /\ snd' = [snd EXCEPT ![t] =
                              SendStart(set_fan_speed_report(rq.channel,
                                                             rq.val))]
            ELSE /\ wr' = [wr EXCEPT ![t] =
                             [pc |-> "return", type |-> rq.type,
                              attr |-> rq.attr, channel |-> rq.channel,
                              val |-> rq.val, ret |-> 0 - EINVAL,
                              mark |-> Len(calls)]]
                 /\ snd' = snd
    /\ nwr' = nwr + 1
    /\ UNCHANGED << variant, channel, lock, hid, hwmon, calls, probe, ev, nev,
                    rd, latest, cpu >>

\* a slip: a write that was sent marks the channel's fan as pwm in the cache
HwmonWriteSent_marks_pwm(t) ==
    /\ wr[t].pc = "send"
    /\ snd[t].pc = "done"
    /\ wr' = [wr EXCEPT ![t].pc = "return", ![t].ret = snd[t].ret]
    /\ channel' = [channel EXCEPT ![wr[t].channel].type = nzxt_grid_fan_pwm]
    /\ UNCHANGED << variant, lock, hid, hwmon, calls, probe, ev, nev, rd, nwr,
                    snd, latest, cpu >>

\* return nzxt_grid_send_output_report(grid, &report, sizeof(report))
HwmonWriteSent(t) ==
    /\ wr[t].pc = "send"
    /\ snd[t].pc = "done"
    /\ wr' = [wr EXCEPT ![t].pc = "return", ![t].ret = snd[t].ret]
    /\ UNCHANGED << variant, channel, lock, hid, hwmon, calls, probe, ev, nev,
                    rd, nwr, snd, latest, cpu >>

\* back in the hwmon core
HwmonWriteReturn(t) ==
    /\ wr[t].pc = "return"
    /\ wr' = [wr EXCEPT ![t] = WrIdle]
    /\ snd' = [snd EXCEPT ![t] = SndIdle]
    /\ UNCHANGED << variant, channel, lock, hid, hwmon, calls, probe, ev, nev,
                    rd, nwr, latest, cpu >>

(***************************************************************************)
(* nzxt_grid_probe.  Every external call either succeeds or gives one of   *)
(* ExternalErrors.  probe.pc names the statement the thread is at.         *)
(***************************************************************************)
Results == {0} \cup ExternalErrors

\* grid = devm_kzalloc(...); if (!grid) return -ENOMEM;
\* rwlock_init(&grid->lock); grid->hid = hdev; hid_set_drvdata(hdev, grid);
ProbeAlloc ==
    /\ probe.pc = "devm_kzalloc"
    /\ \/ /\ probe' = [probe EXCEPT !.pc = "failed", !.ret = 0 - ENOMEM]
          /\ calls' = Append(calls, Call("devm_kzalloc", 0, 0 - ENOMEM, << >>))
          /\ UNCHANGED << channel, lock, latest, cpu >>
       \/ /\ probe' = [probe EXCEPT !.pc = "hid_parse"]
          /\ calls' = Append(calls, Call("devm_kzalloc", 0, 0, << >>))
          /\ channel' = ZeroChannels
          /\ lock' = [writer |-> FALSE, readers |-> {}]
    /\ UNCHANGED << variant, hid, hwmon, ev, nev, rd, wr, nwr, snd, latest, cpu >>

\* ret = hid_parse(hdev); if (ret) return ret;
ProbeParse ==
    /\ probe.pc = "hid_parse"
    /\ \E r \in Results :
         /\ calls' = Append(calls, Call("hid_parse", 0, r, << >>))
         /\ probe' = IF r # 0
                     THEN [probe EXCEPT !.pc = "failed", !.ret = r]
                     ELSE [probe EXCEPT !.pc = "hid_hw_start", !.ret = r]
    /\ UNCHANGED << variant, channel, lock, hid, hwmon, ev, nev, rd, wr, nwr,
                    snd, latest, cpu >>

\* ret = hid_hw_start(hdev, HID_CONNECT_HIDRAW); if (ret) return ret;
ProbeHwStart ==
    /\ probe.pc = "hid_hw_start"
    /\ \E r \in Results :
         /\ calls' = Append(calls, Call("hid_hw_start", 0, r, << >>))
         /\ probe' = IF r # 0
                     THEN [probe EXCEPT !.pc = "failed", !.ret = r]
                     ELSE [probe EXCEPT !.pc = "hid_hw_open", !.ret = r]
         /\ hid' = IF r # 0 THEN hid ELSE [hid EXCEPT !.started = TRUE]
    /\ UNCHANGED << variant, channel, lock, hwmon, ev, nev, rd, wr, nwr, snd,
                    latest, cpu >>

\* ret = hid_hw_open(hdev); if (ret) goto out_hw_stop;
ProbeHwOpen ==
    /\ probe.pc = "hid_hw_open"
    /\ \E r \in Results :
         /\ calls' = Append(calls, Call("hid_hw_open", 0, r, << >>))
         /\ probe' = IF r # 0
                     THEN [probe EXCEPT !.pc = "out_hw_stop", !.ret = r]
                     ELSE [probe EXCEPT !.pc = "hid_device_io_start",
                                        !.ret = r]
         /\ hid' = IF r # 0 THEN hid ELSE [hid EXCEPT !.opened = TRUE]
    /\ UNCHANGED << variant, channel, lock, hwmon, ev, nev, rd, wr, nwr, snd,
                    latest, cpu >>

\* hid_device_io_start(hdev);
ProbeIoStart ==
    /\ probe.pc = "hid_device_io_start"
    /\ calls' = Append(calls, Call("hid_device_io_start", 0, 0, << >>))
    /\ hid' = [hid EXCEPT !.io_started = TRUE]
    /\ probe' = [probe EXCEPT !.pc = "nzxt_grid_detect_fans"]
    /\ UNCHANGED << variant, channel, lock, hwmon, ev, nev, rd, wr, nwr, snd,
                    latest, cpu >>

\* nzxt_grid_detect_fans(grid): builds the report and enters the send
ProbeDetectFans ==
    /\ probe.pc = "nzxt_grid_detect_fans"
    /\ snd' = [snd EXCEPT ![0] = SendStart(detect_fans_report)]
    /\ probe' = [probe EXCEPT !.pc = "detect_fans_sent"]
    /\ UNCHANGED << variant, channel, lock, hid, hwmon, calls, ev, nev, rd, wr,
                    nwr, latest, cpu >>

\* ret = nzxt_grid_detect_fans(grid); if (ret) goto out_hw_close;
ProbeDetectFansDone ==
    /\ probe.pc = "detect_fans_sent"
    /\ snd[0].pc = "done"
    /\ probe' = IF snd[0].ret # 0
                THEN [probe EXCEPT !.pc = "out_hw_close", !.ret = snd[0].ret]
                ELSE [probe EXCEPT !.pc = "nzxt_grid_start_reporting",
                                   !.ret = snd[0].ret]
    /\ snd' = [snd EXCEPT ![0] = SndIdle]
    /\ UNCHANGED << variant, channel, lock, hid, hwmon, calls, ev, nev, rd, wr,
                    nwr, latest, cpu >>

\* nzxt_grid_start_reporting(grid): builds the report and enters the send
ProbeStartReporting ==
    /\ probe.pc = "nzxt_grid_start_reporting"
    /\ snd' = [snd EXCEPT ![0] = SendStart(start_reporting_report)]
    /\ probe' = [probe EXCEPT !.pc = "start_reporting_sent"]
    /\ UNCHANGED << variant, channel, lock, hid, hwmon, calls, ev, nev, rd, wr,
                    nwr, latest, cpu >>

\* ret = nzxt_grid_start_reporting(grid); if (ret) goto out_hw_close;
ProbeStartReportingDone ==
    /\ probe.pc = "start_reporting_sent"
    /\ snd[0].pc = "done"
    /\ probe' = IF snd[0].ret # 0
                THEN [probe EXCEPT !.pc = "out_hw_close", !.ret = snd[0].ret]
                ELSE [probe EXCEPT !.pc = "hwmon_device_register",
                                   !.ret = snd[0].ret]
    /\ snd' = [snd EXCEPT ![0] = SndIdle]
    /\ UNCHANGED << variant, channel, lock, hid, hwmon, calls, ev, nev, rd, wr,
                    nwr, latest, cpu >>

\* grid->hwmon = hwmon_device_register_with_info(...);
\* if (IS_ERR(grid->hwmon)) { ret = PTR_ERR(grid->hwmon); goto out_hw_close; }
\* return 0;
\* a slip: the channel table is cleared again when the surface is registered
ProbeRegister_reinit ==
    /\ probe.pc = "hwmon_device_register"
    /\ \E r \in Results :
         /\ calls' = Append(calls, Call("hwmon_device_register", 0, r, << >>))
         /\ probe' = IF r # 0
                     THEN [probe EXCEPT !.pc = "out_hw_close", !.ret = r]
                     ELSE [probe EXCEPT !.pc = "bound", !.ret = 0]
         /\ hwmon' = IF r # 0 THEN hwmon ELSE "registered"
    /\ channel' = ZeroChannels
    /\ UNCHANGED << variant, lock, hid, ev, nev, rd, wr, nwr, snd,
                    latest, cpu >>

ProbeRegister ==
    /\ probe.pc = "hwmon_device_register"
    /\ \E r \in Results :
         /\ calls' = Append(calls, Call("hwmon_device_register", 0, r, << >>))
         /\ probe' = IF r # 0
                     THEN [probe EXCEPT !.pc = "out_hw_close", !.ret = r]
                     ELSE [probe EXCEPT !.pc = "bound", !.ret = 0]
         /\ hwmon' = IF r # 0 THEN hwmon ELSE "registered"
    /\ UNCHANGED << variant, channel, lock, hid, ev, nev, rd, wr, nwr, snd,
                    latest, cpu >>

\* a slip: out_hw_close returns without falling through to out_hw_stop
ProbeOutHwClose_no_fallthrough ==
    /\ probe.pc = "out_hw_close"
    /\ ev.pc = "idle"
    /\ calls' = Append(calls, Call("hid_hw_close", 0, 0, << >>))
    /\ hid' = [hid EXCEPT !.opened = FALSE]
    /\ probe' = [probe EXCEPT !.pc = "failed"]
    /\ UNCHANGED << variant, channel, lock, hwmon, ev, nev, rd, wr, nwr, snd,
                    latest, cpu >>

\* out_hw_close: hid_hw_close(hdev);  Closing the input stream waits for a
\* raw event that is being handled.
ProbeOutHwClose ==
    /\ probe.pc = "out_hw_close"
    /\ ev.pc = "idle"
    /\ calls' = Append(calls, Call("hid_hw_close", 0, 0, << >>))
    /\ hid' = [hid EXCEPT !.opened = FALSE]
    /\ probe' = [probe EXCEPT !.pc = "out_hw_stop"]
    /\ UNCHANGED << variant, channel, lock, hwmon, ev, nev, rd, wr, nwr, snd,
                    latest, cpu >>

\* out_hw_stop: hid_hw_stop(hdev); return ret;
ProbeOutHwStop ==
    /\ probe.pc = "out_hw_stop"
    /\ calls' = Append(calls, Call("hid_hw_stop", 0, 0, << >>))
    /\ hid' = [hid EXCEPT !.started = FALSE, !.io_started = FALSE]
    /\ probe' = [probe EXCEPT !.pc = "failed"]
    /\ UNCHANGED << variant, channel, lock, hwmon, ev, nev, rd, wr, nwr, snd,
                    latest, cpu >>

(***************************************************************************)
(* nzxt_grid_remove: three calls in a row.  hwmon_device_unregister        *)
(* returns once no read or write callback is running; hid_hw_close waits   *)
(* for a raw event that is being handled.                                  *)
(***************************************************************************)
\* a slip: the transport is stopped before the input stream is closed
nzxt_grid_remove_steps_stop_first ==
    << "hwmon_device_unregister", "hid_hw_stop", "hid_hw_close" >>

\* a slip: the sensor surface is unregistered after the transport is torn down
nzxt_grid_remove_steps_unregister_last ==
    << "hid_hw_close", "hid_hw_stop", "hwmon_device_unregister" >>

nzxt_grid_remove_steps ==
    << "hwmon_device_unregister", "hid_hw_close", "hid_hw_stop" >>

CallbacksIdle ==
    /\ \A t \in Readers : rd[t].pc = "idle"
    /\ \A t \in Writers : wr[t].pc = "idle"

RemoveStep ==
    /\ probe.pc \in {"bound", "removing"}
    /\ probe.step <= Len(nzxt_grid_remove_steps)
    /\ LET op == nzxt_grid_remove_steps[probe.step]
       IN /\ op = "hwmon_device_unregister" => CallbacksIdle
          /\ op = "hid_hw_close" => ev.pc = "idle"
          /\ calls' = Append(calls, Call(op, 0, 0, << >>))
          /\ hwmon' = IF op = "hwmon_device_unregister" THEN "unregistered"
                      ELSE hwmon
          /\ hid' = CASE op = "hid_hw_close" -> [hid EXCEPT !.opened = FALSE]
                      [] op = "hid_hw_stop" ->
                           [hid EXCEPT !.started = FALSE,
                                       !.io_started = FALSE]
                      [] OTHER -> hid
    /\ probe' = [probe EXCEPT
                   !.pc = IF probe.step = Len(nzxt_grid_remove_steps)
                          THEN "removed" ELSE "removing",
                   !.step = @ + 1]
    /\ UNCHANGED << variant, channel, lock, ev, nev, rd, wr, nwr, snd, latest,
                    cpu >>

(***************************************************************************)
(* Inputs of the full specification                                        *)
(***************************************************************************)
\* a 21-byte status report; the reserved and firmware bytes are fixed
StatusBuf(id, rpm, volt, centivolt, amp, centiamp, packed) ==
    << id, 0, 0, rpm \div 256, rpm % 256, 0, 0, volt, centivolt, amp,
       centiamp, 1, 0, 3, 0, packed, 0, 0, 0, 0, 0 >>

\* channel 1, pwm, 1500 rpm, 12.10 V, 1.50 A
ReportS1 == StatusBuf(nzxt_grid_report_id_status, 1500, 12, 10, 1, 50, 18)

\* channel 1, dc, 900 rpm, 7.05 V, 0.30 A
ReportDc == StatusBuf(nzxt_grid_report_id_status, 900, 7, 5, 0, 30, 17)

\* channel index 6: out of range
ReportS4 == StatusBuf(nzxt_grid_report_id_status, 1500, 12, 10, 1, 50, 98)

\* one byte short
ReportShort == SubSeq(ReportS1, 1, STATUS_REPORT_SIZE - 1)

Req(type, attr, chan) == [type |-> type, attr |-> attr, channel |-> chan]

WReq(type, attr, chan, val) ==
    [type |-> type, attr |-> attr, channel |-> chan, val |-> val]

LifeReports == {ReportS1, ReportShort}

LifeReads == {Req("fan", "input", 1)}

LifeWrites == {WReq("pwm", "input", 2, 128), WReq("pwm", "mode", 2, 1)}

LifeReaders == {1}

(***************************************************************************)
(* The full specification: attach, run, detach                             *)
(***************************************************************************)
Init ==
    /\ variant \in Variants
    /\ channel = ZeroChannels
    /\ lock = [writer |-> FALSE, readers |-> {}]
    /\ hid = [started |-> FALSE, opened |-> FALSE, io_started |-> FALSE]
    /\ hwmon = "none"
    /\ calls = << >>
    /\ probe = [pc |-> "devm_kzalloc", ret |-> 0, step |-> 1]
    /\ ev = EvIdle
    /\ nev = 0
    /\ latest = NoLatest
    /\ cpu = 0
    /\ rd = [t \in Readers |-> RdIdle]
    /\ wr = [t \in Writers |-> WrIdle]
    /\ nwr = 0
    /\ snd = [t \in Senders |-> SndIdle]

Next ==
    \/ ProbeAlloc
    \/ ProbeParse
    \/ ProbeHwStart
    \/ ProbeHwOpen
    \/ ProbeIoStart
    \/ ProbeDetectFans
    \/ ProbeDetectFansDone
    \/ ProbeStartReporting
    \/ ProbeStartReportingDone
    \/ ProbeRegister
    \/ ProbeOutHwClose
    \/ ProbeOutHwStop
    \/ RemoveStep
    \/ \E t \in Senders : SendAlloc(t)
    \/ \E t \in Senders : SendSubmit(t)
    \/ \E t \in Senders : SendFree(t)
    \/ RawEventEnter(LifeReports)
    \/ RawEventLock
    \/ RawEventType
    \/ RawEventSpeed
    \/ RawEventIn
    \/ RawEventCurr
    \/ RawEventUnlock
    \/ RawEventReturn
    \/ \E t \in LifeReaders : HwmonReadCall(t, LifeReads)
    \/ \E t \in LifeReaders : HwmonReadLock(t)
    \/ \E t \in LifeReaders : HwmonReadSwitch(t)
    \/ \E t \in LifeReaders : HwmonReadUnlock(t)
    \/ \E t \in LifeReaders : HwmonReadReturn(t)
    \/ \E t \in Writers : HwmonWriteCall(t, LifeWrites)
    \/ \E t \in Writers : HwmonWriteSent(t)
    \/ \E t \in Writers : HwmonWriteReturn(t)

Spec == Init /\ [][Next]_vars

(***************************************************************************)
(* Helpers for reading the call history                                    *)
(***************************************************************************)
Ops(L) == [i \in 1..Len(L) |-> L[i].op]

IsOutputReport(c) == c.op = "hid_hw_output_report"

OutputReports(L) == SelectSeq(L, IsOutputReport)

IsNotKfree(c) == c.op # "kfree"

\* the positions of the calls of op in the history
Positions(op) == {i \in 1..Len(calls) : calls[i].op = op}

ProbeReturnedSuccess == probe.pc \in {"bound", "removing", "removed"}

(***************************************************************************)
(* C1: whenever the sensor surface gets registered, and whenever probe has *)
(* returned success, the output reports submitted before the registration  *)
(* are exactly two successful 65-byte submits, 02 5C first and 02 5D       *)
(* second, and the probe thread submits no other report.                   *)
(***************************************************************************)
C1_HandshakeOrder ==
    /\ \A i \in Positions("hwmon_device_register") :
         LET subs == OutputReports(SubSeq(calls, 1, i - 1))
         IN /\ Len(subs) = 2
            /\ Len(subs[1].buf) = 65 /\ subs[1].buf[1] = 2
            /\ subs[1].buf[2] = 92 /\ subs[1].res >= 0
            /\ Len(subs[2].buf) = 65 /\ subs[2].buf[1] = 2
            /\ subs[2].buf[2] = 93 /\ subs[2].res >= 0
    /\ ProbeReturnedSuccess =>
         /\ hwmon # "none"
         /\ Positions("hwmon_device_register") # {}
         /\ Cardinality({i \in Positions("hid_hw_output_report") :
                            calls[i].by = 0}) = 2

C1_Witness ==
    /\ probe.pc = "bound"
    /\ hwmon = "registered"
    /\ Len(OutputReports(calls)) = 2

(***************************************************************************)
(* C2: when probe has returned after a failing step past the allocation,   *)
(* it returns that step's error, it made no handshake call after the       *)
(* failing one, and what follows the failure is exactly: hid_hw_close if   *)
(* the input stream had been opened, then hid_hw_stop if the transport had *)
(* been started; the sensor surface is not registered.                     *)
(***************************************************************************)
FirstFailure == CHOOSE f \in 1..Len(calls) :
                   /\ calls[f].res < 0
                   /\ \A i \in 1..(f - 1) : calls[i].res >= 0

Succeeded(op, f) == \E i \in 1..(f - 1) : calls[i].op = op

C2_UnwindOnFailure ==
    (probe.pc = "failed" /\ calls[1].res >= 0) =>
        /\ \E f \in 1..Len(calls) : calls[f].res < 0
        /\ LET f == FirstFailure
               after == SelectSeq(SubSeq(calls, f + 1, Len(calls)), IsNotKfree)
           IN /\ probe.ret = calls[f].res
              /\ Ops(after) =
                    (IF Succeeded("hid_hw_open", f)
                     THEN << "hid_hw_close" >> ELSE << >>)
                    \o (IF Succeeded("hid_hw_start", f)
                        THEN << "hid_hw_stop" >> ELSE << >>)
        /\ hwmon # "registered"
        /\ ~hid.opened
        /\ ~hid.started

C2_Witness ==
    /\ probe.pc = "failed"
    /\ \E f \in 1..Len(calls) :
         calls[f].op = "hwmon_device_register" /\ calls[f].res < 0
    /\ \E i, j \in 1..Len(calls) :
         i < j /\ calls[i].op = "hid_hw_close" /\ calls[j].op = "hid_hw_stop"

(***************************************************************************)
(* C3: from the call of hwmon_device_unregister on, the history is a       *)
(* prefix of unregister, close, stop, with nothing else in between (no     *)
(* output report), and once remove has returned it is exactly these three, *)
(* each made once.                                                         *)
(***************************************************************************)
C3_TeardownOrder ==
    probe.pc \in {"removing", "removed"} =>
        /\ Cardinality(Positions("hwmon_device_unregister")) = 1
        /\ LET u == CHOOSE i \in Positions("hwmon_device_unregister") : TRUE
               tail == Ops(SubSeq(calls, u, Len(calls)))
               want == << "hwmon_device_unregister", "hid_hw_close",
                          "hid_hw_stop" >>
           IN /\ Len(tail) <= 3
              /\ tail = SubSeq(want, 1, Len(tail))
              /\ probe.pc = "removed" => tail = want
        /\ probe.pc = "removed" =>
              /\ Cardinality(Positions("hid_hw_close")) = 1
              /\ Cardinality(Positions("hid_hw_stop")) = 1
              /\ hwmon = "unregistered" /\ ~hid.opened /\ ~hid.started

C3_Witness ==
    /\ probe.pc = "removed"
    /\ \E i \in Positions("hid_hw_output_report") : calls[i].by = 1

(***************************************************************************)
(* The running device: the state a successful probe leaves, with no input  *)
(* report received yet.  The focused specifications start here.            *)
(***************************************************************************)
HandshakeCalls ==
    << Call("devm_kzalloc", 0, 0, << >>),
       Call("hid_parse", 0, 0, << >>),
       Call("hid_hw_start", 0, 0, << >>),
       Call("hid_hw_open", 0, 0, << >>),
       Call("hid_device_io_start", 0, 0, << >>),
       Call("kzalloc", 0, 0, << >>),
       Call("hid_hw_output_report", 0, NZXT_GRID_OUTPUT_REPORT_SIZE,
            memcpy(kzalloc_buffer, detect_fans_report)),
       Call("kfree", 0, 0, << >>),
       Call("kzalloc", 0, 0, << >>),
       Call("hid_hw_output_report", 0, NZXT_GRID_OUTPUT_REPORT_SIZE,
            memcpy(kzalloc_buffer, start_reporting_report)),
       Call("kfree", 0, 0, << >>),
       Call("hwmon_device_register", 0, 0, << >>) >>

InitRunning(v) ==
    /\ variant = v
    /\ channel = ZeroChannels
    /\ lock = [writer |-> FALSE, readers |-> {}]
    /\ hid = [started |-> TRUE, opened |-> TRUE, io_started |-> TRUE]
    /\ hwmon = "registered"
    /\ calls = HandshakeCalls
    /\ probe = [pc |-> "bound", ret |-> 0, step |-> 1]
    /\ ev = EvIdle
    /\ nev = 0
    /\ latest = NoLatest
    /\ cpu = 0
    /\ rd = [t \in Readers |-> RdIdle]
    /\ wr = [t \in Writers |-> WrIdle]
    /\ nwr = 0
    /\ snd = [t \in Senders |-> SndIdle]

\* fails under Spec exactly because a successful probe reaches this state
RunningNotReached == ~InitRunning("grid_v3")

RawEvent(bufs) ==
    \/ RawEventEnter(bufs)
    \/ RawEventLock
    \/ RawEventType
    \/ RawEventSpeed
    \/ RawEventIn
    \/ RawEventCurr
    \/ RawEventUnlock
    \/ RawEventReturn

HwmonRead(t, reqs) ==
    \/ HwmonReadCall(t, reqs)
    \/ HwmonReadLock(t)
    \/ HwmonReadSwitch(t)
    \/ HwmonReadUnlock(t)
    \/ HwmonReadReturn(t)

HwmonWrite(t, reqs) ==
    \/ HwmonWriteCall(t, reqs)
    \/ SendAlloc(t)
    \/ SendSubmit(t)
    \/ SendFree(t)
    \/ HwmonWriteSent(t)
    \/ HwmonWriteReturn(t)

(***************************************************************************)
(* SpecCache: readers against the receive path, on one channel             *)
(***************************************************************************)
CacheReports == {ReportS1, ReportDc, ReportS4, ReportShort}

CacheReads == {Req("fan", "input", 1), Req("pwm", "mode", 1)}

InitCache == InitRunning("grid_v3")

NextCache ==
    \/ RawEvent(CacheReports)
    \/ \E t \in Readers : HwmonRead(t, CacheReads)

SpecCache == InitCache /\ [][NextCache]_vars

(***************************************************************************)
(* SpecFrame: the receive path alone, over a wide sample of input buffers  *)
(***************************************************************************)
\* rpm, volts, centivolts, amps, centiamps
FieldSamples ==
    { << 0, 0, 0, 0, 0 >>, << 1500, 12, 10, 1, 50 >>,
      << 65535, 255, 255, 255, 255 >> }

\* the packed byte: channel index 0, 1, 5, 6, 15 with each fan-type value,
\* also with the two unused bits set
PackedSamples ==
    { hi * 16 + lo : hi \in {0, 1, 5, 6, 15}, lo \in {0, 1, 2, 3, 7, 14} }

StatusReports ==
    { StatusBuf(nzxt_grid_report_id_status, f[1], f[2], f[3], f[4], f[5], p) :
        f \in FieldSamples, p \in PackedSamples }

\* buffers of the wrong size: 1, 20, 22 and 64 bytes
WrongSizeReports ==
    { << nzxt_grid_report_id_status >>,
      ReportShort,
      Append(ReportS1, 0),
      [i \in 1..64 |-> IF i = 1 THEN nzxt_grid_report_id_status ELSE 18] }

FrameReports == StatusReports \cup WrongSizeReports

InitFrame == InitRunning("grid_v3")

NextFrame == RawEvent(FrameReports)

SpecFrame == InitFrame /\ [][NextFrame]_vars

(***************************************************************************)
(* SpecRead: one reader over every kind, attribute and channel, against a  *)
(* cache that input reports fill                                           *)
(***************************************************************************)
Kinds == {"fan", "pwm", "in", "curr", "temp"}

Attrs == {"input", "mode", "enable"}

\* channel 0 pwm, channel 2 dc, channel 5 no fan but values
ReadReports ==
    { StatusBuf(nzxt_grid_report_id_status, 1500, 12, 10, 1, 50, 2),
      StatusBuf(nzxt_grid_report_id_status, 900, 7, 5, 0, 30, 33),
      StatusBuf(nzxt_grid_report_id_status, 40, 11, 99, 2, 1, 83) }

AllReads == { Req(k, a, c) : k \in Kinds, a \in Attrs, c \in Channels }

OneReader == {1}

InitRead == InitRunning("grid_v3")

NextRead ==
    \/ RawEvent(ReadReports)
    \/ \E t \in OneReader : HwmonRead(t, AllReads)

SpecRead == InitRead /\ [][NextRead]_vars

(***************************************************************************)
(* SpecDuty: pwm writes over every value from -PwmMargin to 255+PwmMargin  *)
(***************************************************************************)
PwmValues == (0 - PwmMargin)..(255 + PwmMargin)

DutyWrites == { WReq("pwm", "input", 2, v) : v \in PwmValues }

InitDuty == InitRunning("grid_v3")

NextDuty == \E t \in Writers : HwmonWrite(t, DutyWrites)

SpecDuty == InitDuty /\ [][NextDuty]_vars

(***************************************************************************)
(* SpecWrite: writes over every kind, attribute and channel                *)
(***************************************************************************)
WriteValues == {0 - 1, 0, 1, 128, 254, 255, 1000}

AllWrites ==
    { WReq(k, a, c, v) :
        k \in Kinds, a \in Attrs, c \in Channels, v \in WriteValues }

InitWrite == InitRunning("grid_v3")

NextWrite == \E t \in Writers : HwmonWrite(t, AllWrites)

SpecWrite == InitWrite /\ [][NextWrite]_vars

(***************************************************************************)
(* SpecLock: a reader, valid and invalid reads among them, a writer and    *)
(* the receive path side by side                                           *)
(***************************************************************************)
LockReads == {Req("fan", "input", 1), Req("pwm", "input", 1)}

InitLock == InitRunning("grid_v3")

NextLock ==
    \/ RawEvent(CacheReports)
    \/ \E t \in OneReader : HwmonRead(t, LockReads)
    \/ \E t \in Writers : HwmonWrite(t, LifeWrites)

SpecLock == InitLock /\ [][NextLock]_vars

(***************************************************************************)
(* SpecIrq: readers, each on its own CPU, and the receive path, which runs *)
(* in interrupt context on any CPU whose interrupts are on.  While the     *)
(* handler runs on a CPU the reader of that CPU does not advance.  The     *)
(* kernel's rwlock is queued: a reader that arrives while the writer is    *)
(* waiting for the lock waits behind it.  Every CPU keeps executing, so    *)
(* the steps of the handler and of each reader are weakly fair.            *)
(***************************************************************************)
IrqReports == {ReportS1, ReportDc}

IrqReads == {Req("fan", "input", 1)}

InitIrq == InitRunning("grid_v3")

IrqRawEventStep ==
    \/ RawEventLock
    \/ RawEventType
    \/ RawEventSpeed
    \/ RawEventIn
    \/ RawEventCurr
    \/ RawEventUnlock
    \/ RawEventReturn

IrqHwmonReadStep(t) ==
    /\ ~irq_running_on(t)
    /\ \/ ev.pc # "write_lock" /\ HwmonReadLock(t)
       \/ HwmonReadSwitch(t)
       \/ HwmonReadUnlock(t)
       \/ HwmonReadReturn(t)

IrqHwmonReadCall(t) == ~irq_running_on(t) /\ HwmonReadCall(t, IrqReads)

NextIrq ==
    \/ RawEventEnterOn(IrqReports, Cpus)
    \/ IrqRawEventStep
    \/ \E t \in Readers : IrqHwmonReadCall(t)
    \/ \E t \in Readers : IrqHwmonReadStep(t)

FairIrq ==
    /\ WF_vars(IrqRawEventStep)
    /\ \A t \in Readers : WF_vars(IrqHwmonReadStep(t))

SpecIrq == InitIrq /\ [][NextIrq]_vars /\ FairIrq

(***************************************************************************)
(* SpecVariant: the three-channel variant, with reads and writes asked for *)
(* channels 2 and 4 and status reports for channels 2 and 5                 *)
(***************************************************************************)
\* channel 2 dc and channel 5 no fan but values
VariantReports ==
    { StatusBuf(nzxt_grid_report_id_status, 900, 7, 5, 0, 30, 33),
      StatusBuf(nzxt_grid_report_id_status, 40, 11, 99, 2, 1, 83) }

VariantReads == { Req("fan", "input", c) : c \in {2, 4} }

VariantWrites == { WReq("pwm", "input", c, 128) : c \in {2, 4} }

InitVariant == InitRunning("smart_device_v1")

NextVariant ==
    \/ RawEvent(VariantReports)
    \/ \E t \in OneReader : HwmonRead(t, VariantReads)
    \/ \E t \in Writers : HwmonWrite(t, VariantWrites)

SpecVariant == InitVariant /\ [][NextVariant]_vars

(***************************************************************************)
(* SpecFilter: input reports of status-report shape under several report   *)
(* ids, as the HID core receives them from the device                      *)
(***************************************************************************)
FilterIds == {0, nzxt_grid_report_id_command, nzxt_grid_report_id_status, 5}

\* channel 1 pwm, channel 0 dc, channel 5 pwm
FilterPacked == {18, 1, 82}

FilterReports ==
    { StatusBuf(id, f[1], f[2], f[3], f[4], f[5], p) :
        id \in FilterIds, f \in FieldSamples, p \in FilterPacked }

InitFilter == InitRunning("grid_v3")

NextFilter == RawEvent(FilterReports)

SpecFilter == InitFilter /\ [][NextFilter]_vars

(***************************************************************************)
(* What the specification says a status report carries                     *)
(***************************************************************************)
ParsedUpdate(data) ==
    [type |-> CASE data[16] % 4 = 1 -> 1
                [] data[16] % 4 = 2 -> 2
                [] OTHER -> 0,
     speed_rpm |-> data[4] * 256 + data[5],
     in_millivolt |-> data[8] * 1000 + data[9] * 10,
     curr_milliamp |-> data[10] * 1000 + data[11] * 10]

\* the report in hand is a 21-byte report for a channel below 6
EvValid == Len(ev.data) = 21 /\ ev.data[16] \div 16 < 6

EvChannel == ev.data[16] \div 16

(***************************************************************************)
(* C4: while a reader is inside its critical section the entry it reads is *)
(* whole: if a report for that channel is being handled, the entry is the  *)
(* one from before the apply or the one after it, never a mixture; and the *)
(* value the reader took is the field of that whole entry.                 *)
(***************************************************************************)
C4_NoTornRead ==
    \A t \in Readers :
        rd[t].pc \in {"switch", "read_unlock"} =>
            /\ (ev.pc # "idle" /\ EvValid /\ EvChannel = rd[t].channel) =>
                  channel[rd[t].channel] \in
                      {ev.pre[rd[t].channel], ParsedUpdate(ev.data)}
            /\ (rd[t].pc = "read_unlock" /\ rd[t].type = "fan") =>
                  rd[t].val = channel[rd[t].channel].speed_rpm
            /\ (rd[t].pc = "read_unlock" /\ rd[t].type = "pwm") =>
                  rd[t].val = (IF channel[rd[t].channel].type = 2 THEN 1
                               ELSE 0)

\* a reader holds the value of the first report while the second report for
\* the same channel waits for the lock
C4_Witness ==
    \E t \in Readers :
        /\ rd[t].pc = "read_unlock"
        /\ rd[t].type = "fan"
        /\ rd[t].val = 1500
        /\ ev.pc = "write_lock"
        /\ EvChannel = rd[t].channel
        /\ ParsedUpdate(ev.data) # channel[rd[t].channel]

(***************************************************************************)
(* C5: when raw_event returns from a 21-byte report for channel c < 6,     *)
(* entry c is the parsed update and the five other entries are as they     *)
(* were when the report arrived.                                           *)
(***************************************************************************)
C5_ApplyFrame ==
    (ev.pc = "return" /\ EvValid) =>
        /\ channel[EvChannel] = ParsedUpdate(ev.data)
        /\ \A d \in 0..5 : d # EvChannel => channel[d] = ev.pre[d]
        /\ ev.ret = 0

\* scenario S1 applied over an entry that held other values
C5_Witness ==
    /\ ev.pc = "return"
    /\ EvValid
    /\ EvChannel = 1
    /\ channel[1] = [type |-> 2, speed_rpm |-> 1500, in_millivolt |-> 12100,
                     curr_milliamp |-> 1500]
    /\ ev.pre[1].speed_rpm = 65535

(***************************************************************************)
(* C6: when raw_event returns from a buffer that is not 21 bytes long, or  *)
(* from a 21-byte buffer whose channel index is 6 or more, it returns 0,   *)
(* every entry is as it was, and the write lock was never taken.           *)
(***************************************************************************)
C6_DropMalformed ==
    (ev.pc = "return" /\ ~EvValid) =>
        /\ ev.ret = 0
        /\ channel = ev.pre
        /\ ~ev.locked
        /\ ~lock.writer

\* a 22-byte buffer dropped while the cache holds an earlier report
C6_Witness ==
    /\ ev.pc = "return"
    /\ Len(ev.data) = 22
    /\ channel # ZeroChannels

(***************************************************************************)
(* What the specification says the duty of a pwm value is                  *)
(***************************************************************************)
Duty(v) ==
    IF v <= 0 THEN 0
    ELSE IF v >= 255 THEN 100
    ELSE (v * 100) \div 255

IsPwmInput(w) == w.type = "pwm" /\ w.attr = "input"

(***************************************************************************)
(* C7: the duty byte a pwm write builds from value v is within 0..100, is  *)
(* 0 for v <= 0, 100 for v >= 255, v*100/255 rounded toward zero in        *)
(* between, and no smaller value maps to a larger duty.                    *)
(***************************************************************************)
C7_DutyMapping ==
    \A t \in Writers :
        (wr[t].pc \in {"send", "return"} /\ IsPwmInput(wr[t])) =>
            LET v == wr[t].val
                d == snd[t].data[5]
            IN /\ d \in 0..100
               /\ v <= 0 => d = 0
               /\ v >= 255 => d = 100
               /\ (0 < v /\ v < 255) =>
                     /\ d * 255 <= v * 100
                     /\ v * 100 < (d + 1) * 255
               /\ \A u \in PwmValues :
                     u <= v => nzxt_grid_pwm_to_percent(u) <= d

\* value 51 gives 20 percent
C7_Witness ==
    \E t \in Writers :
        /\ wr[t].pc = "return"
        /\ IsPwmInput(wr[t])
        /\ wr[t].val = 51
        /\ snd[t].data[5] = 20

(***************************************************************************)
(* C8 as stated: every returned write of pwm.input has submitted exactly   *)
(* one output report, of 65 bytes, 02 4D c 00 duty(v) and then zeros.      *)
(***************************************************************************)
GoodSetFanSpeed(buf, c, v) ==
    /\ Len(buf) = 65
    /\ buf[1] = 2 /\ buf[2] = 77 /\ buf[3] = c /\ buf[4] = 0
    /\ buf[5] = Duty(v)
    /\ \A i \in 6..65 : buf[i] = 0

\* the output reports the thread has submitted since its call began
SubmitsSince(t) ==
    { i \in (wr[t].mark + 1)..Len(calls) :
        calls[i].op = "hid_hw_output_report" /\ calls[i].by = t }

C8_AlwaysOneSubmit ==
    \A t \in Writers :
        (wr[t].pc = "return" /\ IsPwmInput(wr[t])) =>
            /\ Cardinality(SubmitsSince(t)) = 1
            /\ \A i \in SubmitsSince(t) :
                  GoodSetFanSpeed(calls[i].buf, wr[t].channel, wr[t].val)

(***************************************************************************)
(* C8, amended: a returned write of pwm.input whose buffer allocation      *)
(* succeeded has submitted exactly one output report, of 65 bytes,         *)
(* 02 4D c 00 duty(v) and then zeros; one whose allocation failed has      *)
(* submitted none and returns -ENOMEM.                                     *)
(***************************************************************************)
C8_OneSubmitIfAllocated ==
    \A t \in Writers :
        (wr[t].pc = "return" /\ IsPwmInput(wr[t])) =>
            /\ \A i \in SubmitsSince(t) :
                  GoodSetFanSpeed(calls[i].buf, wr[t].channel, wr[t].val)
            /\ snd[t].allocs = 1 =>
                  /\ Cardinality(SubmitsSince(t)) = 1
                  /\ snd[t].submits = 1
                  /\ GoodSetFanSpeed(snd[t].submitted, wr[t].channel,
                                     wr[t].val)
            /\ snd[t].allocs # 1 =>
                  /\ snd[t].allocs = 0
                  /\ SubmitsSince(t) = {}
                  /\ wr[t].ret = 0 - 12

\* scenario S5: channel 2, value 128
C8_Witness ==
    \E t \in Writers :
        /\ wr[t].pc = "return"
        /\ IsPwmInput(wr[t])
        /\ wr[t].channel = 2
        /\ wr[t].val = 128
        /\ snd[t].submits = 1
        /\ SubSeq(snd[t].submitted, 1, 5) = << 2, 77, 2, 0, 50 >>
        /\ wr[t].ret = 0

(***************************************************************************)
(* C9: the value a read holds when it leaves the critical section is the   *)
(* entry's speed_rpm for fan.input, 1 or 0 for pwm.mode as the type is pwm *)
(* or not, in_millivolt for in.input, curr_milliamp for curr.input; every  *)
(* other pair gives -EINVAL; and a read that has returned no longer holds  *)
(* the reader lock.                                                        *)
(***************************************************************************)
ValidRead(r) ==
    \/ r.type = "fan" /\ r.attr = "input"
    \/ r.type = "pwm" /\ r.attr = "mode"
    \/ r.type = "in" /\ r.attr = "input"
    \/ r.type = "curr" /\ r.attr = "input"

ExpectedRead(r, e) ==
    CASE r.type = "fan"  -> e.speed_rpm
      [] r.type = "pwm"  -> IF e.type = 2 THEN 1 ELSE 0
      [] r.type = "in"   -> e.in_millivolt
      [] r.type = "curr" -> e.curr_milliamp

C9_ReadDispatch ==
    \A t \in Readers :
        /\ rd[t].pc = "read_unlock" =>
              IF ValidRead(rd[t])
              THEN /\ rd[t].ret = 0
                   /\ rd[t].val = ExpectedRead(rd[t], channel[rd[t].channel])
              ELSE rd[t].ret = 0 - 22
        /\ rd[t].pc = "return" =>
              /\ rd[t].ret = (IF ValidRead(rd[t]) THEN 0 ELSE 0 - 22)
              /\ t \notin lock.readers
        /\ t \in lock.readers <=> rd[t].pc \in {"switch", "read_unlock"}

\* pwm.mode of a dc fan reads 0
C9_Witness ==
    \E t \in Readers :
        /\ rd[t].pc = "read_unlock"
        /\ rd[t].type = "pwm" /\ rd[t].attr = "mode"
        /\ channel[rd[t].channel].type = 1
        /\ rd[t].val = 0 /\ rd[t].ret = 0

(***************************************************************************)
(* C10: a returned write that is not pwm.input gives -EINVAL, and since    *)
(* its call began the thread made no allocation and no submit.             *)
(***************************************************************************)
C10_InvalidWrite ==
    \A t \in Writers :
        (wr[t].pc = "return" /\ ~IsPwmInput(wr[t])) =>
            /\ wr[t].ret = 0 - 22
            /\ snd[t].pc = "idle"
            /\ snd[t].allocs = 0
            /\ snd[t].submits = 0
            /\ \A i \in (wr[t].mark + 1)..Len(calls) : calls[i].by # t

C10_Witness ==
    \E t \in Writers :
        /\ wr[t].pc = "return"
        /\ wr[t].type = "pwm" /\ wr[t].attr = "mode"
        /\ wr[t].ret = 0 - 22

(***************************************************************************)
(* C11: a read or write callback is in progress only while the sensor      *)
(* surface is registered, and the surface is registered only between the   *)
(* successful return of probe and the first call of remove: the transport  *)
(* is then started, open and delivering input.  Before registration, after *)
(* a failed handshake and after the first step of remove no callback is    *)
(* in progress.                                                            *)
(***************************************************************************)
CallbackServed ==
    \/ \E t \in Readers : rd[t].pc # "idle"
    \/ \E t \in Writers : wr[t].pc # "idle"

C11_ServedOnlyWhenRunning ==
    /\ hwmon = "registered" <=> probe.pc = "bound"
    /\ CallbackServed => hwmon = "registered"
    /\ hwmon = "registered" =>
          hid.started /\ hid.opened /\ hid.io_started
    /\ probe.pc \in {"removing", "removed"} => hwmon = "unregistered"
    /\ probe.pc \notin {"bound", "removing", "removed"} => hwmon = "none"

\* the transport has been closed by remove after a write had been served
C11_Witness ==
    /\ probe.pc = "removing"
    /\ ~hid.opened
    /\ nwr > 0
    /\ ~CallbackServed

(***************************************************************************)
(* C12: one invocation of nzxt_grid_send_output_report, by probe or by a   *)
(* write, allocates at most once and submits at most once.  When it        *)
(* returns: if the allocation failed it returns -ENOMEM, nothing was       *)
(* submitted and nothing was freed; if the buffer was allocated it was     *)
(* submitted exactly once and freed exactly once, and the result is the    *)
(* transport's error code when the submit failed and 0 otherwise.          *)
(***************************************************************************)
C12_SendOnceAndRelease ==
    \A t \in Senders :
        /\ snd[t].allocs <= 1
        /\ snd[t].submits <= snd[t].allocs
        /\ snd[t].frees <= snd[t].submits
        /\ snd[t].pc = "done" =>
              /\ snd[t].buffer = << >>
              /\ snd[t].allocs = 0 =>
                    /\ snd[t].ret = 0 - ENOMEM
                    /\ snd[t].submits = 0
                    /\ snd[t].frees = 0
              /\ snd[t].allocs = 1 =>
                    /\ snd[t].submits = 1
                    /\ snd[t].frees = 1
                    /\ snd[t].hw_ret < 0 => snd[t].ret = snd[t].hw_ret
                    /\ snd[t].hw_ret >= 0 => snd[t].ret = 0

\* a set-fan-speed command whose submit failed: freed once, error passed on
C12_Witness ==
    \E t \in Writers :
        /\ snd[t].pc = "done"
        /\ snd[t].allocs = 1
        /\ snd[t].submits = 1
        /\ snd[t].frees = 1
        /\ snd[t].hw_ret < 0
        /\ snd[t].ret = snd[t].hw_ret

(***************************************************************************)
(* C13: applies are serialized by the write lock: the lock has a writer    *)
(* exactly while nzxt_grid_raw_event is between write_lock_irqsave and     *)
(* write_unlock_irqrestore, and no reader holds it then.  Whenever no      *)
(* apply for a channel is under way, the channel's entry is the update     *)
(* parsed from the accepted report for it that arrived last (zero when     *)
(* none arrived): of two reports for one channel the later one wins.       *)
(***************************************************************************)
WriterSection ==
    {"type", "speed_rpm", "in_millivolt", "curr_milliamp", "write_unlock"}

\* an accepted report for channel c has arrived and is not yet applied
InFlight(c) ==
    /\ ev.pc \in WriterSection \cup {"write_lock"}
    /\ EvChannel = c

LatestUpdate(c) ==
    IF latest[c].data = << >> THEN ZeroStatus
    ELSE ParsedUpdate(latest[c].data)

C13_ArrivalOrder ==
    /\ lock.writer <=> ev.pc \in WriterSection
    /\ lock.writer => lock.readers = {}
    /\ \A c \in Channels : ~InFlight(c) => channel[c] = LatestUpdate(c)

\* ReportS1 then ReportDc, both for channel 1: the entry is ReportDc's
C13_Witness ==
    /\ nev = 2
    /\ ev.pc = "return"
    /\ ev.data = ReportDc
    /\ ev.pre[1] = ParsedUpdate(ReportS1)
    /\ channel[1] = ParsedUpdate(ReportDc)

(***************************************************************************)
(* C14: a valid status report handled between hid_device_io_start and the  *)
(* registration of the sensor surface is applied to the cache like any     *)
(* other.  Once probe has succeeded, a read of that channel made while     *)
(* that report is still the last one that arrived for the channel returns  *)
(* the report's values.                                                    *)
(***************************************************************************)
HandshakePcs ==
    {"nzxt_grid_detect_fans", "detect_fans_sent", "nzxt_grid_start_reporting",
     "start_reporting_sent", "hwmon_device_register"}

C14_HandshakeReportServed ==
    /\ (probe.pc \in HandshakePcs /\ ev.pc = "return" /\ EvValid) =>
          /\ ev.ret = 0
          /\ channel[EvChannel] = ParsedUpdate(ev.data)
    /\ \A t \in Readers :
          LET c == rd[t].channel
          IN (/\ rd[t].pc = "read_unlock"
              /\ ValidRead(rd[t])
              /\ latest[c].phase \in HandshakePcs
              /\ ~InFlight(c)) =>
                 /\ rd[t].ret = 0
                 /\ rd[t].val =
                      ExpectedRead(rd[t], ParsedUpdate(latest[c].data))

\* ReportS1 arrived before registration; fan1_input then reads 1500
C14_Witness ==
    \E t \in Readers :
        /\ rd[t].pc = "read_unlock"
        /\ rd[t].type = "fan" /\ rd[t].channel = 1
        /\ latest[1].data = ReportS1
        /\ latest[1].phase \in HandshakePcs
        /\ probe.pc = "bound"
        /\ rd[t].val = 1500

(***************************************************************************)
(* C15: the lock is held by a reader exactly between read_lock_irqsave and *)
(* read_unlock_irqrestore, around the one field read, and by the receive   *)
(* path exactly between write_lock_irqsave and write_unlock_irqrestore,    *)
(* around the update of one entry.  A thread that is allocating,           *)
(* submitting or freeing an output buffer is the probe thread or a writer  *)
(* inside nzxt_grid_write_pwm_input, and is not among the lock's holders.  *)
(***************************************************************************)
ReaderSection == {"switch", "read_unlock"}

SendInProgress(t) ==
    snd[t].pc \in {"kzalloc", "hid_hw_output_report", "kfree"}

C15_NoSendUnderLock ==
    /\ \A t \in Readers : t \in lock.readers <=> rd[t].pc \in ReaderSection
    /\ lock.readers \subseteq Readers
    /\ lock.writer <=> ev.pc \in WriterSection
    /\ \A t \in Writers : SendInProgress(t) => wr[t].pc = "send"
    /\ \A t \in Writers : wr[t].pc # "send" => snd[t].pc \in {"idle", "done"}

\* a submit is under way in the writer while a reader holds the lock
C15_Witness ==
    \E t \in Writers :
        /\ snd[t].pc = "hid_hw_output_report"
        /\ lock.readers # {}

(***************************************************************************)
(* C16: the input interrupt is never being handled on a CPU whose reader   *)
(* holds the lock, because the reader took the lock with interrupts off.   *)
(* Hence every apply that has reached write_lock_irqsave goes on to        *)
(* return, and every read that has reached read_lock_irqsave goes on to    *)
(* return: no reader and no apply waits for the lock for ever.             *)
(***************************************************************************)
C16_NoIrqDeadlock ==
    /\ [](\A k \in Readers : irq_running_on(k) => k \notin lock.readers)
    /\ (ev.pc = "write_lock") ~> (ev.pc = "return")
    /\ \A t \in Readers : (rd[t].pc = "read_lock") ~> (rd[t].pc = "return")

\* the handler holds the write lock on the CPU of a reader that has entered
\* nzxt_grid_hwmon_read and not yet taken the lock
C16_Witness ==
    \E t \in Readers :
        /\ cpu = t
        /\ ev.pc \in WriterSection
        /\ rd[t].pc = "read_lock"

(***************************************************************************)
(* C17: every entry's type is none, dc or pwm, in every state.  Whenever   *)
(* no apply for a channel is under way: if no report was accepted for the  *)
(* channel its entry is none with speed, voltage and current 0; otherwise  *)
(* its type is dc if the low two bits of the last accepted report's        *)
(* packed byte are 1, pwm if they are 2 and none if they are 0 or 3, and   *)
(* its speed, voltage and current are that report's in every case.         *)
(***************************************************************************)
FanTypes == {nzxt_grid_fan_none, nzxt_grid_fan_dc, nzxt_grid_fan_pwm}

C17_TypeOfLatestReport ==
    \A c \in Channels :
        /\ channel[c].type \in FanTypes
        /\ (~InFlight(c) /\ latest[c].data = << >>) =>
              /\ channel[c].type = nzxt_grid_fan_none
              /\ channel[c].speed_rpm = 0
              /\ channel[c].in_millivolt = 0
              /\ channel[c].curr_milliamp = 0
        /\ (~InFlight(c) /\ latest[c].data # << >>) =>
              LET d == latest[c].data
                  raw == d[16] % 4
              IN /\ raw = 1 => channel[c].type = nzxt_grid_fan_dc
                 /\ raw = 2 => channel[c].type = nzxt_grid_fan_pwm
                 /\ raw \in {0, 3} => channel[c].type = nzxt_grid_fan_none
                 /\ channel[c].speed_rpm = d[4] * 256 + d[5]
                 /\ channel[c].in_millivolt = d[8] * 1000 + d[9] * 10
                 /\ channel[c].curr_milliamp = d[10] * 1000 + d[11] * 10

\* raw fan-type 3 with 1500 rpm: stored as none, the measurements kept
C17_Witness ==
    \E c \in Channels :
        /\ ~InFlight(c)
        /\ latest[c].data # << >>
        /\ latest[c].data[16] % 4 = 3
        /\ channel[c].type = nzxt_grid_fan_none
        /\ channel[c].speed_rpm = 1500
        /\ channel[c].in_millivolt = 12100

(***************************************************************************)
(* C18, as claimed: on the three-channel variant entries 3..5 keep their   *)
(* initial zero value.  A status report that names channel 3, 4 or 5 is    *)
(* applied on this variant as on the other, so this fails.                 *)
(***************************************************************************)
UpperChannels == Channels \ ExposedChannels("smart_device_v1")

C18_UpperEntriesStayZero ==
    variant = "smart_device_v1" =>
        \A c \in UpperChannels : channel[c] = ZeroStatus

(***************************************************************************)
(* C18, amended: on the three-channel variant the table has six entries    *)
(* and only channels 0..2 are exposed: every read and write callback is    *)
(* for a channel in 0..2 and every set-fan-speed command names a channel   *)
(* in 0..2.  Entries 3..5 are changed by inbound status reports only:      *)
(* outside an apply each holds the last accepted report for it, or zero.   *)
(***************************************************************************)
C18_UpperEntriesNotExposed ==
    variant = "smart_device_v1" =>
        /\ DOMAIN channel = 0..5
        /\ \A t \in Readers : rd[t].pc # "idle" => rd[t].channel \in 0..2
        /\ \A t \in Writers : wr[t].pc # "idle" => wr[t].channel \in 0..2
        /\ \A i \in 1..Len(calls) :
              (IsOutputReport(calls[i]) /\ calls[i].buf[2] = 77) =>
                  calls[i].buf[3] \in 0..2
        /\ \A c \in UpperChannels :
              ~InFlight(c) => channel[c] = LatestUpdate(c)

\* entry 5 holds a report while channel 2 is being read and was written
C18_Witness ==
    /\ variant = "smart_device_v1"
    /\ channel[5] # ZeroStatus
    /\ \E t \in Readers : rd[t].pc = "read_unlock" /\ rd[t].channel = 2
    /\ \E i \in 1..Len(calls) :
          IsOutputReport(calls[i]) /\ calls[i].buf[2] = 77

(***************************************************************************)
(* C19, as claimed: a 21-byte input report that names a channel below 6    *)
(* and whose first byte is not 4 is rejected: when nzxt_grid_raw_event     *)
(* returns, the result is 0, the write lock was not taken and the cache is *)
(* what it was when the report came in.  nzxt_grid_raw_event never reads   *)
(* the first byte and applies such a report, so this fails.                *)
(***************************************************************************)
C19_OtherReportIdDropped ==
    (/\ ev.pc = "return"
     /\ EvValid
     /\ ev.data[1] # nzxt_grid_report_id_status) =>
        /\ ev.ret = 0
        /\ ~ev.locked
        /\ channel = ev.pre

(***************************************************************************)
(* C20: every step that changes the channel table is one of the four       *)
(* stores of nzxt_grid_raw_event, made under the write lock for an         *)
(* accepted report, and changes the entry of that report's channel only.   *)
(* No step of a read, of a write, of a command send or of probe and        *)
(* remove changes any entry, so an applied value stays until the next      *)
(* accepted report for its channel is applied.                             *)
(***************************************************************************)
C20_OnlyReportsMutate ==
    [][channel' # channel =>
         /\ ev.pc \in {"type", "speed_rpm", "in_millivolt", "curr_milliamp"}
         /\ ev'.pc # ev.pc
         /\ lock.writer
         /\ \A c \in Channels \ {EvChannel} : channel'[c] = channel[c]
         /\ rd' = rd /\ wr' = wr /\ snd' = snd /\ probe' = probe
         /\ calls' = calls]_vars

\* a pwm write of channel 2 has succeeded: entry 2 is still zero and entry
\* 1 still holds the report applied before
C20_Witness ==
    \E t \in Writers :
        /\ wr[t].pc = "return"
        /\ IsPwmInput(wr[t])
        /\ wr[t].ret = 0
        /\ wr[t].channel = 2
        /\ channel[2] = ZeroStatus
        /\ channel[1] = ParsedUpdate(ReportS1)

====
